---------------------------- MODULE Spec2Model ----------------------------
(***************************************************************************)
(* State-machine model of pycozmo's session client (pycozmo/client.py):    *)
(* the image reassembly engine, the telemetry tracker and the handshake    *)
(* controller with its blocking wait.                                      *)
(***************************************************************************)
EXTENDS Integers, Sequences, FiniteSets, TLC

\* Python's None in an integer-valued field (ids, timestamps and enum values
\* on the wire are non-negative).
None == -1

\* No exception: the handler returned.
NoExc == "NoExc"

\* ------------------------------------------------------------------------
\* Bounds of the explored input space.
\* ------------------------------------------------------------------------
MaxChunkId == 2
MaxChunkCount == 3
MaxChunkLen == 1

\* ------------------------------------------------------------------------
\* Inputs of the image-chunk handler.
\* ------------------------------------------------------------------------
Bytes == {1}
ImageIds == {7, 8}

\* Every frame has its own timestamp, carried by each of its chunks.
FrameTimestamp(id) == 10 * id

\* protocol_encoder.ImageEncoding(v): the enum member of a wire value; any
\* other value makes the conversion raise ValueError.
\* an enum member is modelled by its value, a failed conversion by ValueError.
ValueError == -2

JPEGColor == 6
JPEGMinimizedGray == 8
ImageEncoding(v) == IF v \in {JPEGColor, JPEGMinimizedGray} THEN v ELSE ValueError

\* protocol_encoder.ImageResolution(v), likewise.
VerificationSnapshot == 0
ImageResolution(v) == IF v \in {VerificationSnapshot} THEN v ELSE ValueError

\* camera.RESOLUTIONS: (width, height) of a resolution, scaled down so that
\* a handful of chunks fills the buffer.
RESOLUTIONS(r) ==
    CASE r = VerificationSnapshot -> <<1, 1>>

\* Line 292: the capacity of the buffer of a frame of resolution r.
MaxSize(r) == RESOLUTIONS(r)[1] * RESOLUTIONS(r)[2] * 3

\* Payloads: n bytes of one value, for every length up to MaxChunkLen and
\* for one length that no buffer of the smallest resolution holds.
PayloadLengths == (0..MaxChunkLen) \cup {MaxSize(VerificationSnapshot) + 1}
Payloads == {[i \in 1..n |-> b] : n \in PayloadLengths, b \in Bytes}

EncodingValues == {JPEGMinimizedGray}
ResolutionValues == {VerificationSnapshot}

\* The delivered chunks: the packet codec delivers typed fields, so encoding
\* and resolution are enum values.
ImageChunks ==
    {[frame_timestamp |-> FrameTimestamp(id), image_id |-> id,
      image_encoding |-> enc, image_resolution |-> res,
      chunk_id |-> c, image_chunk_count |-> n, data |-> d] :
        id \in ImageIds, enc \in EncodingValues, res \in ResolutionValues,
        c \in 0..MaxChunkId, n \in 1..MaxChunkCount, d \in Payloads}

VARIABLES
    _partial_image_timestamp, _partial_data, _partial_image_id,
    _partial_invalid, _partial_size, _partial_image_encoding,
    _partial_image_resolution, _last_chunk_id,
    _latest_image, last_image_timestamp,
    handled,       \* the packet the delivery thread handled last
    dispatched,    \* the events dispatched while handling it, in order
    raised,        \* the exception that handler ended with, or None
    run,           \* the run of consecutively delivered chunks 0,1,.. of one id
    resync,        \* resynchronisation after a frame was discarded by a chunk
                   \* that did not continue it: "Synced", "Waiting" for chunk
                   \* 0, or "Ended" by the chunk 0 handled last
    replaced,      \* the handled chunk 0 found a frame of another id open
    \* Telemetry tracker
    snapshot,      \* the motion and power fields (pose_angle .. gyro)
    robot_status,
    old_status,    \* _on_robot_state's local: the status before the packet
    \* Handshake controller
    serial_number_head, robot_fw_sig, serial_number, body_hw_version,
    body_color,
    dispatch_handlers,  \* the dispatcher's subscriptions, per event kind
    sent,          \* the commands the running (or last) handler sent, in order
    dpc,           \* the delivery thread: "idle", or its place in _on_body_info
    ready_dispatched,   \* EvtRobotReady has been dispatched (the session is Ready)
    found_dispatched,   \* EvtRobotFound has been dispatched
    \* wait_for_robot on the caller thread
    wpc,           \* the caller's place in wait_for_robot
    calls,         \* the calls of wait_for_robot so far
    e_flags,       \* the threading.Event objects that are set
    outcome,       \* how the last call ended
    since_call,    \* the handshake events dispatched since the last call began
    \* Object presence tracker
    available_objects, connected_objects,
    first_available,    \* per factory id, the first packet that named it
    \* Session lifecycle
    conn_handlers, \* per packet type, the callbacks registered with the Connection
    conn_running,  \* the Connection has been started and not stopped
    lifecycle      \* the lifecycle call made last: "None", "start" or "stop"

partial_vars ==
    <<_partial_image_timestamp, _partial_data, _partial_image_id,
      _partial_invalid, _partial_size, _partial_image_encoding,
      _partial_image_resolution, _last_chunk_id>>
image_vars ==
    <<partial_vars, _latest_image, last_image_timestamp, run, resync, replaced>>
telemetry_vars == <<snapshot, robot_status, old_status>>
log_vars == <<handled, dispatched, raised>>
identity_vars ==
    <<serial_number_head, robot_fw_sig, serial_number, body_hw_version, body_color>>
delivery_vars == <<sent, dpc, ready_dispatched, found_dispatched>>
caller_vars == <<wpc, calls, outcome>>
handshake_vars ==
    <<identity_vars, delivery_vars, caller_vars, dispatch_handlers, e_flags,
      since_call>>
object_vars == <<available_objects, connected_objects, first_available>>
conn_vars == <<conn_handlers, conn_running, lifecycle>>
vars ==
    <<image_vars, telemetry_vars, handshake_vars, log_vars, object_vars, conn_vars>>

\* ------------------------------------------------------------------------
\* Image reassembly engine
\* ------------------------------------------------------------------------
\* An uninitialised byte of a fresh buffer.
Uninit == -1

\* The partial image state as one record, so that the handler's statements
\* compose in order.
Partial ==
    [timestamp |-> _partial_image_timestamp, data |-> _partial_data,
     image_id |-> _partial_image_id, invalid |-> _partial_invalid,
     size |-> _partial_size, encoding |-> _partial_image_encoding,
     resolution |-> _partial_image_resolution, last |-> _last_chunk_id]

\* _partial_data is None, or a buffer of bytes.
NoBuffer == [allocated |-> FALSE, bytes |-> <<>>]

\* No image (the value None of an image-valued field).
NoImage == [data |-> <<>>, is_color |-> FALSE, size |-> <<0, 0>>]

_reset_partial_state ==
    [timestamp |-> None, data |-> NoBuffer, image_id |-> None, invalid |-> FALSE,
     size |-> 0, encoding |-> None, resolution |-> None, last |-> -1]

\* np.empty(max_size): max_size uninitialised bytes.
NpEmpty(max_size) ==
    [allocated |-> TRUE, bytes |-> [i \in 1..max_size |-> Uninit]]

Min(a, b) == IF a < b THEN a ELSE b

\* Length of the slice data[offset : offset + n] of a buffer of cap bytes
\* (numpy clips both ends of a slice to the buffer).
SliceLen(cap, offset, n) == Min(cap, offset + n) - Min(cap, offset)

\* _partial_data[offset:offset + len(pkt.data)] = pkt.data succeeds when the
\* payload has the slice's length or broadcasts to it (a one-byte payload
\* broadcasts to an empty slice); otherwise numpy raises ValueError.
SliceAssignOk(cap, offset, n) ==
    \/ SliceLen(cap, offset, n) = n
    \/ n = 1

SliceAssign(buf, offset, d) ==
    [i \in 1..Len(buf) |->
        IF i > offset /\ i <= offset + SliceLen(Len(buf), offset, Len(d))
        THEN d[IF Len(d) = 1 THEN 1 ELSE i - offset]
        ELSE buf[i]]

\* The chunk is the last of its frame.
IsLastChunk(pkt) == pkt.chunk_id = pkt.image_chunk_count - 1

ChunkMismatchIndexOnly(p, pkt) == pkt.chunk_id # (p.last + 1)

\* The chunk does not continue the open frame.
ChunkMismatch(p, pkt) ==
    pkt.chunk_id # (p.last + 1) \/ pkt.image_id # p.image_id

\* Lines 272-275: chunk 0 arriving while a frame is open closes that frame.
AfterLostFinal(p, pkt) ==
    IF p.image_id # None /\ pkt.chunk_id = 0
    THEN [p EXCEPT !.image_id = None]
    ELSE p

\* Lines 283-293: open a new frame from chunk 0.  The result carries the
\* exception that interrupted it, if any.
OpenFrame(pkt) ==
    LET p1 == [_reset_partial_state EXCEPT
                   !.timestamp = pkt.frame_timestamp,
                   !.image_id = pkt.image_id]
        enc == ImageEncoding(pkt.image_encoding)
        res == ImageResolution(pkt.image_resolution)
    IN  IF enc = ValueError THEN [p |-> p1, exc |-> "ValueError"]
        ELSE IF res = ValueError
        THEN [p |-> [p1 EXCEPT !.encoding = enc], exc |-> "ValueError"]
        ELSE LET wh == RESOLUTIONS(res)
                 max_size == wh[1] * wh[2] * 3
             IN  [p |-> [p1 EXCEPT !.encoding = enc, !.resolution = res,
                                   !.data = NpEmpty(max_size)],
                  exc |-> NoExc]

\* Lines 311-336: the completed image, or the exception that decoding ends
\* with.  decodable is the image codec's verdict on the accumulated bytes.
_process_completed_image(p, decodable) ==
    LET data == SubSeq(p.data.bytes, 1, Min(p.size, Len(p.data.bytes)))
    IN  IF Len(data) = 0 THEN [exc |-> "IndexError", image |-> NoImage]
        ELSE IF ~decodable THEN [exc |-> "DecodeError", image |-> NoImage]
        ELSE [exc |-> NoExc,
              image |-> [data |-> data, is_color |-> data[1] # 0,
                         size |-> RESOLUTIONS(p.resolution)]]

\* The handler's outcome: the partial state it leaves, the events it
\* dispatched, the completed image (None when none) and the exception it
\* ended with (None when it returned).
ChunkOutcome(p0, pkt, decodable) ==
    LET pA == AfterLostFinal(p0, pkt)
        quiet == [p |-> pA, stamp |-> None, events |-> <<>>, image |-> NoImage, exc |-> NoExc]
    IN  IF pA.image_id = None /\ pkt.chunk_id # 0
        THEN [quiet EXCEPT !.p = [pA EXCEPT !.invalid = TRUE]]
        ELSE
        LET opened == IF pA.image_id = None THEN OpenFrame(pkt)
                      ELSE [p |-> pA, exc |-> NoExc]
            pB == opened.p
        IN  IF opened.exc # NoExc
            THEN [quiet EXCEPT !.p = pB, !.exc = opened.exc]
            ELSE IF ChunkMismatch(pB, pkt)
            THEN [quiet EXCEPT !.p = [_reset_partial_state EXCEPT !.invalid = TRUE]]
            ELSE IF ~SliceAssignOk(Len(pB.data.bytes), pB.size, Len(pkt.data))
            THEN [quiet EXCEPT !.p = pB, !.exc = "ValueError"]
            ELSE
            LET pD == [pB EXCEPT
                          !.data = [pB.data EXCEPT !.bytes = SliceAssign(@, pB.size, pkt.data)],
                          !.size = pB.size + Len(pkt.data),
                          !.last = pkt.chunk_id]
            IN  IF ~IsLastChunk(pkt)
                THEN [quiet EXCEPT !.p = pD]
                ELSE
                LET done == _process_completed_image(pD, decodable)
                IN  IF done.exc # NoExc
                    THEN [quiet EXCEPT !.p = pD, !.exc = done.exc]
                    ELSE [p |-> _reset_partial_state, stamp |-> pD.timestamp,
                          events |-> <<[evt |-> "EvtNewRawCameraImage",
                                        args |-> <<done.image>>]>>,
                          image |-> done.image, exc |-> NoExc]

NoRun == [id |-> None, len |-> 0, n |-> 0]

\* Observer of the delivered sequence: the run of consecutive chunks
\* 0, 1, .. of one image id that the delivered chunk ends, with the chunk
\* count its first chunk declared.
RunAfter(r, pkt) ==
    IF pkt.chunk_id = 0
    THEN [id |-> pkt.image_id, len |-> 1, n |-> pkt.image_chunk_count]
    ELSE IF r.id = pkt.image_id /\ r.len = pkt.chunk_id
    THEN [r EXCEPT !.len = r.len + 1]
    ELSE NoRun

\* Observer: a chunk that does not continue the open frame starts a
\* resynchronisation, which the next chunk 0 ends.
ResyncAfter(p, r, pkt) ==
    IF pkt.chunk_id = 0 THEN (IF r = "Waiting" THEN "Ended" ELSE "Synced")
    ELSE IF p.image_id # None
            /\ (pkt.chunk_id # p.last + 1 \/ pkt.image_id # p.image_id)
    THEN "Waiting"
    ELSE IF r = "Waiting" THEN "Waiting" ELSE "Synced"

\* Observer: chunk 0 of a new image id arrives while a frame holding bytes
\* is open.
ReplacesOpenFrame(p, pkt) ==
    /\ p.image_id # None
    /\ p.size > 0
    /\ pkt.chunk_id = 0
    /\ pkt.image_id # p.image_id

_on_image_chunk(pkt, decodable) ==
    \E out \in {ChunkOutcome(Partial, pkt, decodable)} :
        /\ UNCHANGED <<telemetry_vars, handshake_vars, object_vars, conn_vars>>
        /\ _partial_image_timestamp' = out.p.timestamp
        /\ _partial_data' = out.p.data
        /\ _partial_image_id' = out.p.image_id
        /\ _partial_invalid' = out.p.invalid
        /\ _partial_size' = out.p.size
        /\ _partial_image_encoding' = out.p.encoding
        /\ _partial_image_resolution' = out.p.resolution
        /\ _last_chunk_id' = out.p.last
        /\ _latest_image' = IF out.events # <<>> THEN out.image ELSE _latest_image
        /\ last_image_timestamp' =
               IF out.events # <<>> THEN out.stamp ELSE last_image_timestamp
        /\ handled' = [type |-> "ImageChunk", pkt |-> pkt]
        /\ dispatched' = out.events
        /\ raised' = out.exc
        /\ run' = RunAfter(run, pkt)
        /\ resync' = ResyncAfter(Partial, resync, pkt)
        /\ replaced' = ReplacesOpenFrame(Partial, pkt)

InitImage ==
    /\ _partial_image_timestamp = None
    /\ _partial_data = NoBuffer
    /\ _partial_image_id = None
    /\ _partial_invalid = FALSE
    /\ _partial_size = 0
    /\ _partial_image_encoding = None
    /\ _partial_image_resolution = None
    /\ _last_chunk_id = -1
    /\ _latest_image = NoImage
    /\ last_image_timestamp = None
    /\ run = NoRun
    /\ resync = "Synced"
    /\ replaced = FALSE

\* ------------------------------------------------------------------------
\* Telemetry tracker
\* ------------------------------------------------------------------------
\* robot.RobotStatusFlag: the bit of each status flag.
RobotStatusFlag ==
    [IS_MOVING |-> 1, IS_CARRYING_BLOCK |-> 2, IS_PICKING_OR_PLACING |-> 4,
     IS_PICKED_UP |-> 8, IS_BODY_ACC_MODE |-> 16, IS_FALLING |-> 32,
     IS_ANIMATING |-> 64, IS_PATHING |-> 128, LIFT_IN_POS |-> 256,
     HEAD_IN_POS |-> 512, IS_ANIM_BUFFER_FULL |-> 1024,
     IS_ANIMATING_IDLE |-> 2048, IS_ON_CHARGER |-> 4096, IS_CHARGING |-> 8192,
     CLIFF_DETECTED |-> 16384, ARE_WHEELS_MOVING |-> 32768,
     IS_CHARGER_OOS |-> 65536]

\* STATUS_EVTS, in declaration order: the event class dispatched for a flag.
STATUS_EVTS ==
    << <<"IS_MOVING", "EvtRobotMovingChange">>,
       <<"IS_CARRYING_BLOCK", "EvtRobotCarryingBlockChange">>,
       <<"IS_PICKING_OR_PLACING", "EvtRobotPickingOrPlacingChange">>,
       <<"IS_PICKED_UP", "EvtRobotPickedUpChange">>,
       <<"IS_BODY_ACC_MODE", "EvtRobotBodyAccModeChange">>,
       <<"IS_FALLING", "EvtRobotFallingChange">>,
       <<"IS_ANIMATING", "EvtRobotAnimatingChange">>,
       <<"IS_PATHING", "EvtRobotPathingChange">>,
       <<"LIFT_IN_POS", "EvtRobotLiftInPositionChange">>,
       <<"HEAD_IN_POS", "EvtRobotHeadInPositionChange">>,
       <<"IS_ANIM_BUFFER_FULL", "EvtRobotAnimBufferFullChange">>,
       <<"IS_ANIMATING_IDLE", "EvtRobotAnimatingChange">>,
       <<"IS_ON_CHARGER", "EvtRobotOnChargerChange">>,
       <<"IS_CHARGING", "EvtRobotChargingChange">>,
       <<"CLIFF_DETECTED", "EvtCliffDetectedChange">>,
       <<"ARE_WHEELS_MOVING", "EvtRobotWheelsMovingChange">>,
       <<"IS_CHARGER_OOS", "EvtChargerOOSChange">> >>

FlagNames == DOMAIN RobotStatusFlag

\* status & flag, for a flag of one bit.
BitAnd(status, flag) == ((status \div flag) % 2) * flag

\* The flags whose bits the explored packets set and clear.
ExploredFlags ==
    {"IS_MOVING", "IS_CARRYING_BLOCK", "IS_ANIMATING", "IS_ANIMATING_IDLE",
     "IS_CHARGER_OOS"}

RECURSIVE StatusOf(_)
\* The bit-field with exactly the flags of F set.
StatusOf(F) ==
    IF F = {} THEN 0
    ELSE LET f == CHOOSE g \in F : TRUE
         IN  RobotStatusFlag[f] + StatusOf(F \ {f})

Statuses == {StatusOf(F) : F \in SUBSET ExploredFlags}

\* Two samples of the motion and power fields of a robot-state packet.
MotionSamples ==
    {[pose_angle_rad |-> m, pose_pitch_rad |-> m, head_angle_rad |-> m,
      lwheel_speed_mmps |-> m, rwheel_speed_mmps |-> m, lift_height_mm |-> m,
      battery_voltage |-> m, accel |-> <<m, m, m>>, gyro |-> <<m, m, m>>] :
        m \in {0, 1}}

RobotStates == [motion : MotionSamples, status : Statuses]

\* Lines 340-348: the snapshot fields a packet sets.
SnapshotOf(pkt) ==
    [pose_angle |-> pkt.motion.pose_angle_rad,
     pose_pitch |-> pkt.motion.pose_pitch_rad,
     head_angle |-> pkt.motion.head_angle_rad,
     left_wheel_speed |-> pkt.motion.lwheel_speed_mmps,
     right_wheel_speed |-> pkt.motion.rwheel_speed_mmps,
     lift_position |-> pkt.motion.lift_height_mm,
     battery_voltage |-> pkt.motion.battery_voltage,
     accel |-> pkt.motion.accel,
     gyro |-> pkt.motion.gyro]

\* The bit of the flag differs between the two statuses (line 354).
FlagChanged(old, new, flag) == BitAnd(old, flag) # BitAnd(new, flag)

StatusFlagEventsReversed(old, new) ==
    LET n == Len(STATUS_EVTS)
        rev == [i \in 1..n |-> STATUS_EVTS[n + 1 - i]]
        changed == SelectSeq(rev,
                       LAMBDA fe : FlagChanged(old, new, RobotStatusFlag[fe[1]]))
    IN  [i \in 1..Len(changed) |->
            [evt |-> changed[i][2],
             args |-> <<BitAnd(new, RobotStatusFlag[changed[i][1]]) # 0>>]]

\* Lines 353-357: the flag events of a status change, in the order of
\* STATUS_EVTS.
StatusFlagEvents(old, new) ==
    LET changed == SelectSeq(STATUS_EVTS,
                       LAMBDA fe : FlagChanged(old, new, RobotStatusFlag[fe[1]]))
    IN  [i \in 1..Len(changed) |->
            [evt |-> changed[i][2],
             args |-> <<BitAnd(new, RobotStatusFlag[changed[i][1]]) # 0>>]]

_on_robot_state(pkt) ==
    /\ snapshot' = SnapshotOf(pkt)
    /\ old_status' = robot_status
    /\ robot_status' = pkt.status
    /\ dispatched' =
           <<[evt |-> "EvtRobotStateUpdated",
              args |-> <<[robot_status |-> pkt.status,
                          snapshot |-> SnapshotOf(pkt)]>>]>>
           \o StatusFlagEvents(robot_status, pkt.status)
    /\ handled' = [type |-> "RobotState", pkt |-> pkt]
    /\ raised' = NoExc
    /\ UNCHANGED <<image_vars, handshake_vars, object_vars, conn_vars>>

\* Lines 140-151: the snapshot after construction.
InitTelemetry ==
    /\ snapshot = [pose_angle |-> 0, pose_pitch |-> 0, head_angle |-> 0,
                   left_wheel_speed |-> 0, right_wheel_speed |-> 0,
                   lift_position |-> 0, battery_voltage |-> 0,
                   accel |-> <<0, 0, 0>>, gyro |-> <<0, 0, 0>>]
    /\ robot_status = 0
    /\ old_status = 0

\* ------------------------------------------------------------------------
\* Handshake controller
\* ------------------------------------------------------------------------
\* protocol_declaration.FIRMWARE_VERSION, the one supported version.
FIRMWARE_VERSION == 2381

\* json.loads(pkt.signature) of the explored signatures: text that is not
\* JSON (the call raises), the empty object, an object without a "version"
\* member, and objects with one.  A value is "None", "EmptyObject" or
\* "Object"; version is None where the object has no such member.
NoSignature == [value |-> "None", version |-> None]
JsonLoads(signature) ==
    CASE signature = "{}" -> [value |-> "EmptyObject", version |-> None]
      [] signature = "{\"build\": 1}" -> [value |-> "Object", version |-> None]
      [] signature = "{\"version\": 2381}" -> [value |-> "Object", version |-> 2381]
      [] signature = "{\"version\": 2380}" -> [value |-> "Object", version |-> 2380]
      [] OTHER -> [value |-> "JSONDecodeError", version |-> None]

Signatures ==
    {"not json", "{}", "{\"build\": 1}", "{\"version\": 2381}", "{\"version\": 2380}"}

\* bool(sig): None and the empty object are false.
Truthy(sig) == sig.value = "Object"

\* sig["version"]: the member, or the exception the subscript raises.
HasVersion(sig) == sig.value = "Object" /\ sig.version # None
SubscriptError(sig) == IF sig.value = "None" THEN "TypeError" ELSE "KeyError"

SupportedAnyVersion(sig) == TRUE

\* Line 236.
Supported(sig) == sig.version = FIRMWARE_VERSION

EnableOnce == <<"Enable">>

\* Lines 196-198: the commands of _enable_robot.
EnableCommands == <<"Enable", "Enable">>

DisplayCycles == 7

RECURSIVE ClearDisplay(_)
\* Lines 209-213: n cycles of NextFrame, DisplayImage.
ClearDisplay(n) ==
    IF n = 0 THEN <<>> ELSE <<"NextFrame", "DisplayImage">> \o ClearDisplay(n - 1)

InitializeCommandsDisplayFirst ==
    ClearDisplay(DisplayCycles) \o <<"EnableBodyACC", "EnableAnimationState">>

\* Lines 202-213: the commands of _initialize_robot.
InitializeCommands ==
    <<"EnableBodyACC", "EnableAnimationState">> \o ClearDisplay(DisplayCycles)

HardwareInfos == [serial_number_head : {12345}]
FirmwareSignatures == [signature : Signatures]
\* Body-info packets; a serial number of 0 is false at line 254.
BodyInfos == [serial_number : {0, 4711}, body_hw_version : {5}, body_color : {2}]

\* Dispatcher.add_handler(evt, f, one_shot=True), f setting the Event e.
AddHandler(handlers, evt, e) ==
    [handlers EXCEPT ![evt] = Append(@, [e |-> e, one_shot |-> TRUE])]

\* Dispatcher.dispatch(evt): the handlers of evt run in subscription order
\* and the one-shot ones are removed.
HandlersAfterDispatch(handlers, evt) ==
    [handlers EXCEPT ![evt] = SelectSeq(@, LAMBDA h : ~h.one_shot)]
EventsSetBy(handlers, evt) ==
    {handlers[evt][i].e : i \in DOMAIN handlers[evt]}

_on_hardware_info(pkt) ==
    /\ dpc = "idle"
    /\ UNCHANGED <<image_vars, telemetry_vars, object_vars, conn_vars>>
    /\ UNCHANGED since_call
    /\ serial_number_head' = pkt.serial_number_head
    /\ handled' = [type |-> "HardwareInfo", pkt |-> pkt]
    /\ dispatched' = <<>>
    /\ sent' = <<>>
    /\ raised' = NoExc
    /\ UNCHANGED <<robot_fw_sig, serial_number, body_hw_version, body_color,
                   dpc, ready_dispatched, found_dispatched, caller_vars,
                   dispatch_handlers, e_flags>>

\* Lines 224-228.  json.loads raising leaves the stored signature as it
\* was; a value without "version" is stored before line 227 raises.
_on_firmware_signature(pkt) ==
    /\ dpc = "idle"
    /\ UNCHANGED <<image_vars, telemetry_vars, object_vars, conn_vars>>
    /\ UNCHANGED since_call
    /\ handled' = [type |-> "FirmwareSignature", pkt |-> pkt]
    /\ dispatched' = <<>>
    /\ LET sig == JsonLoads(pkt.signature)
       IN  IF sig.value = "JSONDecodeError"
           THEN /\ raised' = "JSONDecodeError"
                /\ sent' = <<>>
                /\ UNCHANGED robot_fw_sig
           ELSE /\ robot_fw_sig' = sig
                /\ IF HasVersion(sig)
                   THEN raised' = NoExc /\ sent' = EnableCommands
                   ELSE raised' = SubscriptError(sig) /\ sent' = <<>>
    /\ UNCHANGED <<serial_number_head, serial_number, body_hw_version, body_color,
                   dpc, ready_dispatched, found_dispatched, caller_vars,
                   dispatch_handlers, e_flags>>

\* Lines 232-235 of _on_body_info.
body_info_store(pkt) ==
    /\ dpc = "idle"
    /\ UNCHANGED <<image_vars, telemetry_vars, object_vars, conn_vars>>
    /\ UNCHANGED since_call
    /\ serial_number' = pkt.serial_number
    /\ body_hw_version' = pkt.body_hw_version
    /\ body_color' = pkt.body_color
    /\ handled' = [type |-> "BodyInfo", pkt |-> pkt]
    /\ dispatched' = <<>>
    /\ sent' = <<>>
    /\ raised' = NoExc
    /\ dpc' = "line 236"
    /\ UNCHANGED <<serial_number_head, robot_fw_sig, ready_dispatched,
                   found_dispatched, caller_vars, dispatch_handlers, e_flags>>

\* Lines 236-241: the version check, which raises when the stored signature
\* has no "version"; the unsupported branch only logs.
body_info_check_version ==
    /\ dpc = "line 236"
    /\ UNCHANGED <<image_vars, telemetry_vars, object_vars, conn_vars>>
    /\ UNCHANGED since_call
    /\ IF ~HasVersion(robot_fw_sig)
       THEN raised' = SubscriptError(robot_fw_sig) /\ dpc' = "idle"
       ELSE /\ raised' = raised
            /\ dpc' = IF Supported(robot_fw_sig) THEN "line 238" ELSE "line 242"
    /\ UNCHANGED <<identity_vars, sent, ready_dispatched, found_dispatched,
                   caller_vars, dispatch_handlers, e_flags, handled, dispatched>>

\* Lines 202-213 of _initialize_robot: the sends.
initialize_robot_send ==
    /\ dpc = "line 238"
    /\ UNCHANGED <<image_vars, telemetry_vars, object_vars, conn_vars>>
    /\ UNCHANGED since_call
    /\ sent' = sent \o InitializeCommands
    /\ dpc' = "line 216"
    /\ UNCHANGED <<identity_vars, ready_dispatched, found_dispatched, caller_vars,
                   dispatch_handlers, e_flags, log_vars>>

\* Lines 216-218 of _initialize_robot: the settle delay, then EvtRobotReady.
initialize_robot_ready ==
    /\ dpc = "line 216"
    /\ UNCHANGED <<image_vars, telemetry_vars, object_vars, conn_vars>>
    /\ dispatched' = Append(dispatched, [evt |-> "EvtRobotReady", args |-> <<>>])
    /\ since_call' = since_call \cup {"EvtRobotReady"}
    /\ e_flags' = e_flags \cup EventsSetBy(dispatch_handlers, "EvtRobotReady")
    /\ dispatch_handlers' = HandlersAfterDispatch(dispatch_handlers, "EvtRobotReady")
    /\ ready_dispatched' = TRUE
    /\ dpc' = "line 242"
    /\ UNCHANGED <<identity_vars, sent, found_dispatched, caller_vars, handled, raised>>

\* Line 242.
body_info_found ==
    /\ dpc = "line 242"
    /\ UNCHANGED <<image_vars, telemetry_vars, object_vars, conn_vars>>
    /\ dispatched' = Append(dispatched, [evt |-> "EvtRobotFound", args |-> <<>>])
    /\ since_call' = since_call \cup {"EvtRobotFound"}
    /\ e_flags' = e_flags \cup EventsSetBy(dispatch_handlers, "EvtRobotFound")
    /\ dispatch_handlers' = HandlersAfterDispatch(dispatch_handlers, "EvtRobotFound")
    /\ found_dispatched' = TRUE
    /\ dpc' = "idle"
    /\ UNCHANGED <<identity_vars, sent, ready_dispatched, caller_vars, handled, raised>>

\* The delivery thread's variables a step of the caller leaves alone.
UnchangedByCaller ==
    UNCHANGED <<image_vars, telemetry_vars, identity_vars, delivery_vars, log_vars,
                object_vars, conn_vars>>

MaxCalls == 2

\* A call of wait_for_robot.
wait_for_robot_call ==
    /\ wpc \in {"idle", "done"}
    /\ calls < MaxCalls
    /\ calls' = calls + 1
    /\ wpc' = "line 245"
    /\ outcome' = "None"
    /\ since_call' = {}
    /\ UNCHANGED <<dispatch_handlers, e_flags>>
    /\ UnchangedByCaller

\* Line 245.
wait_check_signature ==
    /\ wpc = "line 245"
    /\ wpc' = IF ~Truthy(robot_fw_sig) THEN "line 246" ELSE "line 251"
    /\ UNCHANGED <<calls, outcome, dispatch_handlers, e_flags>>
    /\ UNCHANGED since_call
    /\ UnchangedByCaller

\* Lines 246-247 (phase 1) and 255-256 (phase 2): a new Event and its
\* one-shot handler.
wait_add_handler ==
    /\ wpc \in {"line 246", "line 255"}
    /\ dispatch_handlers' =
           IF wpc = "line 246"
           THEN AddHandler(dispatch_handlers, "EvtRobotFound", <<calls, 1>>)
           ELSE AddHandler(dispatch_handlers, "EvtRobotReady", <<calls, 2>>)
    /\ wpc' = IF wpc = "line 246" THEN "line 248" ELSE "line 257"
    /\ UNCHANGED <<calls, outcome, e_flags>>
    /\ UNCHANGED since_call
    /\ UnchangedByCaller

\* Lines 248 and 257: e.wait(timeout) returns True, the Event being set.
wait_woken ==
    /\ \/ wpc = "line 248" /\ <<calls, 1>> \in e_flags /\ wpc' = "line 251"
                            /\ outcome' = outcome
       \/ wpc = "line 257" /\ <<calls, 2>> \in e_flags /\ wpc' = "done"
                            /\ outcome' = "returned"
    /\ UNCHANGED <<calls, dispatch_handlers, e_flags>>
    /\ UNCHANGED since_call
    /\ UnchangedByCaller

\* Lines 248-249 and 257-258: the timeout elapses with the Event not set.
wait_timeout ==
    /\ \/ wpc = "line 248" /\ <<calls, 1>> \notin e_flags
       \/ wpc = "line 257" /\ <<calls, 2>> \notin e_flags
    /\ wpc' = "done"
    /\ outcome' = "ConnectionTimeout"
    /\ UNCHANGED <<calls, dispatch_handlers, e_flags>>
    /\ UNCHANGED since_call
    /\ UnchangedByCaller

\* Lines 251-252.
wait_check_version ==
    /\ wpc = "line 251"
    /\ IF ~HasVersion(robot_fw_sig)
       THEN wpc' = "done" /\ outcome' = SubscriptError(robot_fw_sig)
       ELSE IF robot_fw_sig.version # FIRMWARE_VERSION
       THEN wpc' = "done" /\ outcome' = "UnsupportedFirmwareVersion"
       ELSE wpc' = "line 254" /\ outcome' = outcome
    /\ UNCHANGED <<calls, dispatch_handlers, e_flags>>
    /\ UNCHANGED since_call
    /\ UnchangedByCaller

\* Line 254: None and 0 are false.
wait_check_serial_number ==
    /\ wpc = "line 254"
    /\ IF serial_number = None \/ serial_number = 0
       THEN wpc' = "line 255" /\ outcome' = outcome
       ELSE wpc' = "done" /\ outcome' = "returned"
    /\ UNCHANGED <<calls, dispatch_handlers, e_flags>>
    /\ UNCHANGED since_call
    /\ UnchangedByCaller

\* Lines 135-139 and the dispatcher's empty registry.
InitHandshake ==
    /\ serial_number_head = None
    /\ robot_fw_sig = NoSignature
    /\ serial_number = None
    /\ body_hw_version = None
    /\ body_color = None
    /\ dispatch_handlers = [evt \in {"EvtRobotFound", "EvtRobotReady"} |-> <<>>]
    /\ sent = <<>>
    /\ dpc = "idle"
    /\ ready_dispatched = FALSE
    /\ found_dispatched = FALSE
    /\ wpc = "idle"
    /\ calls = 0
    /\ e_flags = {}
    /\ outcome = "None"
    /\ since_call = {}

\* ------------------------------------------------------------------------
\* Object presence tracker
\* ------------------------------------------------------------------------
MaxFactoryId == 2

FactoryIds == 1..MaxFactoryId
\* Two session ids of connected objects.
ObjectIds == {0, 1}

\* protocol_encoder.ObjectType(v): the enum member of a wire value.
ObjectTypeValues == {1, 2}
ObjectType(v) == IF v \in ObjectTypeValues THEN v ELSE ValueError

ObjectAvailables == [factory_id : FactoryIds, object_type : ObjectTypeValues]
ObjectConnectionStates ==
    [object_id : ObjectIds, factory_id : FactoryIds,
     object_type : ObjectTypeValues, connected : BOOLEAN]

\* d[k] = v of a dict: the key is added or its value replaced.
DictSet(d, k, v) == [x \in DOMAIN d \cup {k} |-> IF x = k THEN v ELSE d[x]]
\* del d[k]
DictDel(d, k) == [x \in DOMAIN d \ {k} |-> d[x]]

\* object.Object(factory_id, object_type)
Object(factory_id, object_type) ==
    [factory_id |-> factory_id, object_type |-> object_type]

AvailableAfterOverwrite(objs, pkt) ==
    DictSet(objs, pkt.factory_id, Object(pkt.factory_id, ObjectType(pkt.object_type)))

\* Lines 369-373: the available objects after an object-available packet.
AvailableAfter(objs, pkt) ==
    LET factory_id == pkt.factory_id
        obj == Object(factory_id, ObjectType(pkt.object_type))
    IN  IF factory_id \notin DOMAIN objs
        THEN DictSet(objs, factory_id, obj)
        ELSE objs

_on_object_available(pkt) ==
    /\ available_objects' = AvailableAfter(available_objects, pkt)
    /\ first_available' =
           IF pkt.factory_id \in DOMAIN first_available
           THEN first_available
           ELSE DictSet(first_available, pkt.factory_id, pkt)
    /\ handled' = [type |-> "ObjectAvailable", pkt |-> pkt]
    /\ dispatched' = <<>>
    /\ raised' = NoExc
    /\ UNCHANGED <<connected_objects, image_vars, telemetry_vars, handshake_vars,
                   conn_vars>>

\* Lines 378-387.
_on_object_connection_state(pkt) ==
    /\ connected_objects' =
           IF pkt.connected
           THEN DictSet(connected_objects, pkt.object_id,
                        [factory_id |-> pkt.factory_id,
                         object_type |-> pkt.object_type])
           ELSE IF pkt.object_id \in DOMAIN connected_objects
                THEN DictDel(connected_objects, pkt.object_id)
                ELSE connected_objects
    /\ handled' = [type |-> "ObjectConnectionState", pkt |-> pkt]
    /\ dispatched' = <<>>
    /\ raised' = NoExc
    /\ UNCHANGED <<available_objects, first_available, image_vars, telemetry_vars,
                   handshake_vars, conn_vars>>

\* Lines 160-161: both maps start empty.
InitObjects ==
    /\ available_objects = <<>>
    /\ connected_objects = <<>>
    /\ first_available = <<>>

\* ------------------------------------------------------------------------
\* Session lifecycle
\* ------------------------------------------------------------------------
MaxStarts == 2

\* The packet types start() registers a callback for (lines 171-178).
PacketTypes ==
    {"HardwareInfo", "FirmwareSignature", "BodyInfo", "ImageChunk", "RobotState",
     "AnimationState", "ObjectAvailable", "ObjectConnectionState"}

\* Connection.addHandler(packetType, callback): one more callback of the type.
ConnAddHandler(handlers, type) == [handlers EXCEPT ![type] = @ + 1]

\* Connection.stop(): the delivery thread ends; the Connection's interface
\* has no removal of callbacks and stop() makes none.
ConnStop(handlers) == handlers

\* Dispatcher.del_all_handlers(): teardown clears all subscriptions.
DelAllHandlers(handlers) == [evt \in DOMAIN handlers |-> <<>>]

RECURSIVE RegisterAll(_, _)
\* Lines 171-178: one conn.add_handler call per packet type.
RegisterAll(handlers, types) ==
    IF types = {} THEN handlers
    ELSE LET t == CHOOSE x \in types : TRUE
         IN  RegisterAll(ConnAddHandler(handlers, t), types \ {t})

UnchangedByLifecycle ==
    UNCHANGED <<image_vars, telemetry_vars, identity_vars, delivery_vars,
                caller_vars, e_flags, since_call, log_vars, object_vars>>

\* Lines 169-179, called on a session that is not running: the application
\* pairs its start() and stop() calls.
start ==
    /\ ~conn_running
    /\ \A t \in PacketTypes : conn_handlers[t] < MaxStarts
    /\ conn_handlers' = RegisterAll(conn_handlers, PacketTypes)
    /\ conn_running' = TRUE
    /\ lifecycle' = "start"
    /\ UNCHANGED dispatch_handlers
    /\ UnchangedByLifecycle

\* Lines 181-184: conn.stop(), then the client's own del_all_handlers().
stop ==
    /\ conn_handlers' = ConnStop(conn_handlers)
    /\ conn_running' = FALSE
    /\ dispatch_handlers' = DelAllHandlers(dispatch_handlers)
    /\ lifecycle' = "stop"
    /\ UnchangedByLifecycle

\* Line 171: the started Connection delivers a hardware-info packet to the
\* callback registered for its type.
deliver_hardware_info(pkt) ==
    /\ conn_running
    /\ conn_handlers["HardwareInfo"] > 0
    /\ _on_hardware_info(pkt)

\* Line 134: the Connection is constructed with no callback registered.
InitLifecycle ==
    /\ conn_handlers = [t \in PacketTypes |-> 0]
    /\ conn_running = FALSE
    /\ lifecycle = "None"

Init ==
    /\ InitImage
    /\ InitTelemetry
    /\ InitHandshake
    /\ InitObjects
    /\ InitLifecycle
    /\ handled = [type |-> "None"]
    /\ dispatched = <<>>
    /\ raised = NoExc

NextImage ==
    \E pkt \in ImageChunks :
        \E decodable \in (IF IsLastChunk(pkt) THEN BOOLEAN ELSE {TRUE}) :
            _on_image_chunk(pkt, decodable)

SpecImage == Init /\ [][NextImage]_vars

NextTelemetry ==
    \E pkt \in RobotStates : _on_robot_state(pkt)

SpecTelemetry == Init /\ [][NextTelemetry]_vars

NextHandshake ==
    \/ \E pkt \in HardwareInfos : _on_hardware_info(pkt)
    \/ \E pkt \in FirmwareSignatures : _on_firmware_signature(pkt)
    \/ \E pkt \in BodyInfos : body_info_store(pkt)
    \/ body_info_check_version
    \/ initialize_robot_send
    \/ initialize_robot_ready
    \/ body_info_found
    \/ wait_for_robot_call
    \/ wait_check_signature
    \/ wait_add_handler
    \/ wait_woken
    \/ wait_timeout
    \/ wait_check_version
    \/ wait_check_serial_number

SpecHandshake == Init /\ [][NextHandshake]_vars

NextObjects ==
    \/ \E pkt \in ObjectAvailables : _on_object_available(pkt)
    \/ \E pkt \in ObjectConnectionStates : _on_object_connection_state(pkt)

SpecObjects == Init /\ [][NextObjects]_vars

\* start() and stop() called by the application, with callers of
\* wait_for_robot subscribing meanwhile and the started Connection
\* delivering hardware-info packets.
NextLifecycle ==
    \/ start
    \/ stop
    \/ \E pkt \in HardwareInfos : deliver_hardware_info(pkt)
    \/ wait_for_robot_call
    \/ wait_check_signature
    \/ wait_add_handler
    \/ wait_timeout

SpecLifecycle == Init /\ [][NextLifecycle]_vars

\* ------------------------------------------------------------------------
\* Properties of the image reassembly engine
\* ------------------------------------------------------------------------
ImageEvents == SelectSeq(dispatched, LAMBDA e : e.evt = "EvtNewRawCameraImage")

\* C1: an image event is dispatched while handling a chunk if and only if
\* that chunk ends a run of consecutively delivered chunks 0..N-1 of one
\* image id, N being the chunk count declared by the run's first chunk, and
\* then exactly one is dispatched.
C1_RunOfDeclaredCount ==
    handled.type = "ImageChunk" =>
        /\ Len(ImageEvents) = (IF run.len = run.n /\ run.len > 0 THEN 1 ELSE 0)

\* C2: once a chunk has arrived that does not continue the open frame, the
\* frame is discarded and no image event is dispatched, by that chunk or by
\* any later one, until a chunk with index 0 has arrived; a frame completed
\* by that chunk 0 is delivered as usual, in one event carrying its bytes.
C2_DiscardUntilChunkZero ==
    /\ resync = "Waiting" =>
           /\ ImageEvents = <<>>
           /\ _partial_image_id = None
           /\ _partial_data = NoBuffer
           /\ _partial_size = 0
    /\ (resync = "Ended" /\ IsLastChunk(handled.pkt) /\ raised = NoExc) =>
           /\ Len(ImageEvents) = 1
           /\ ImageEvents[1].args[1].data = handled.pkt.data
           /\ last_image_timestamp = handled.pkt.frame_timestamp
           /\ _partial_image_id = None

\* C2 witness: the scenario's end: after a discarded frame, chunk 0 of 1 of
\* image 8 arrived and its image was dispatched.
C2_Witness ==
    /\ resync = "Ended"
    /\ handled.pkt.image_id = 8
    /\ handled.pkt.image_chunk_count = 1
    /\ Len(ImageEvents) = 1

\* The buffer of a frame whose only accepted chunk carried the bytes d.
FreshBufferWith(d, res) ==
    LET wh == RESOLUTIONS(res)
    IN  [allocated |-> TRUE,
         bytes |-> [i \in 1..(wh[1] * wh[2] * 3) |->
                       IF i <= Len(d) THEN d[i] ELSE Uninit]]

\* C3: chunk 0 of a new image id arriving while a frame is open discards
\* that frame without an event for it and opens a frame that holds the
\* arriving chunk alone: an event, if the chunk is also the last of its
\* frame, carries that chunk's bytes only.
C3_NewFrameReplacesOpenFrame ==
    [][(/\ _partial_image_id # None
        /\ handled'.type = "ImageChunk"
        /\ handled'.pkt.chunk_id = 0
        /\ handled'.pkt.image_id # _partial_image_id)
       => LET pkt == handled'.pkt
          IN  IF dispatched' # <<>>
              THEN /\ Len(dispatched') = 1
                   /\ IsLastChunk(pkt)
                   /\ dispatched'[1].args[1].data = pkt.data
                   /\ last_image_timestamp' = pkt.frame_timestamp
                   /\ _partial_image_id' = None
              ELSE /\ _partial_image_timestamp' = pkt.frame_timestamp
                   /\ _partial_image_id' = pkt.image_id
                   /\ _partial_size' = Len(pkt.data)
                   /\ _last_chunk_id' = 0
                   /\ ~_partial_invalid'
                   /\ _partial_data' = FreshBufferWith(pkt.data, pkt.image_resolution)
      ]_vars

\* C17: no sequence of image chunks makes the handler fail: it never ends
\* with an exception, and the accumulated byte count of the open frame never
\* exceeds the capacity of its buffer; a chunk whose payload does not fit
\* discards the frame like any other chunk-level anomaly.
C17_ChunkHandlerNeverFails ==
    handled.type = "ImageChunk" =>
        /\ raised = NoExc
        /\ _partial_data # NoBuffer => _partial_size <= Len(_partial_data.bytes)
        /\ (\/ Len(handled.pkt.data) > MaxSize(handled.pkt.image_resolution)
            \/ _partial_size > MaxSize(handled.pkt.image_resolution))
           => _partial_image_id = None /\ dispatched = <<>>

\* The two shapes of the partial image state between chunk deliveries.
IdleShape ==
    /\ _partial_image_id = None
    /\ _last_chunk_id = -1
    /\ _partial_size = 0
    /\ _partial_data = NoBuffer
    /\ _partial_image_timestamp = None
OpenShape ==
    /\ _partial_image_id # None
    /\ _partial_data.allocated
    /\ _last_chunk_id >= 0
    /\ ~_partial_invalid

\* C20: between chunk deliveries the partial image state is idle or open;
\* the invalid flag is set only in the idle shape and is clear whenever a
\* frame is open.
C20_IdleOrOpen ==
    /\ IdleShape \/ OpenShape
    /\ _partial_invalid => IdleShape
    /\ _partial_image_id # None => ~_partial_invalid

\* ------------------------------------------------------------------------
\* Properties of the telemetry tracker
\* ------------------------------------------------------------------------
\* The Status Flag Table: every flag has an event kind of its own, the class
\* declared for it.
FlagEventKind ==
    [IS_MOVING |-> "EvtRobotMovingChange",
     IS_CARRYING_BLOCK |-> "EvtRobotCarryingBlockChange",
     IS_PICKING_OR_PLACING |-> "EvtRobotPickingOrPlacingChange",
     IS_PICKED_UP |-> "EvtRobotPickedUpChange",
     IS_BODY_ACC_MODE |-> "EvtRobotBodyAccModeChange",
     IS_FALLING |-> "EvtRobotFallingChange",
     IS_ANIMATING |-> "EvtRobotAnimatingChange",
     IS_PATHING |-> "EvtRobotPathingChange",
     LIFT_IN_POS |-> "EvtRobotLiftInPositionChange",
     HEAD_IN_POS |-> "EvtRobotHeadInPositionChange",
     IS_ANIM_BUFFER_FULL |-> "EvtRobotAnimBufferFullChange",
     IS_ANIMATING_IDLE |-> "EvtRobotAnimatingIdleChange",
     IS_ON_CHARGER |-> "EvtRobotOnChargerChange",
     IS_CHARGING |-> "EvtRobotChargingChange",
     CLIFF_DETECTED |-> "EvtCliffDetectedChange",
     ARE_WHEELS_MOVING |-> "EvtRobotWheelsMovingChange",
     IS_CHARGER_OOS |-> "EvtChargerOOSChange"]

FlagEvents == SelectSeq(dispatched, LAMBDA e : e.evt # "EvtRobotStateUpdated")

ChangedFlags ==
    {f \in FlagNames :
        BitAnd(old_status, RobotStatusFlag[f]) # BitAnd(robot_status, RobotStatusFlag[f])}

\* C4: the flag events dispatched while handling a robot-state packet are
\* exactly one event per flag whose bit differs between the previously
\* stored status and the packet's, of that flag's kind and carrying the
\* bit's new value; no event is dispatched for a flag whose bit is unchanged.
C4_FlagEventsAreChangedBits ==
    handled.type = "RobotState" =>
        /\ Len(FlagEvents) = Cardinality(ChangedFlags)
        /\ {<<FlagEvents[i].evt, FlagEvents[i].args[1]>> : i \in DOMAIN FlagEvents}
               = {<<FlagEventKind[f], BitAnd(robot_status, RobotStatusFlag[f]) # 0>> :
                      f \in ChangedFlags}

\* The flags for which STATUS_EVTS dispatches the event kind k.
FlagsDispatching(k) ==
    {STATUS_EVTS[i][1] : i \in {j \in DOMAIN STATUS_EVTS : STATUS_EVTS[j][2] = k}}

\* C5: no two flags share an event kind: every flag event dispatched while
\* handling a packet is of a kind that one flag alone dispatches, so a
\* packet never dispatches one kind twice.
C5_OneEventKindPerFlag ==
    handled.type = "RobotState" =>
        /\ \A i \in DOMAIN FlagEvents :
               Cardinality(FlagsDispatching(FlagEvents[i].evt)) = 1
        /\ \A i, j \in DOMAIN FlagEvents :
               FlagEvents[i].evt = FlagEvents[j].evt => i = j

\* The flags in the order the Status Flag Table declares them.
DeclarationOrder ==
    <<"IS_MOVING", "IS_CARRYING_BLOCK", "IS_PICKING_OR_PLACING", "IS_PICKED_UP",
      "IS_BODY_ACC_MODE", "IS_FALLING", "IS_ANIMATING", "IS_PATHING",
      "LIFT_IN_POS", "HEAD_IN_POS", "IS_ANIM_BUFFER_FULL", "IS_ANIMATING_IDLE",
      "IS_ON_CHARGER", "IS_CHARGING", "CLIFF_DETECTED", "ARE_WHEELS_MOVING",
      "IS_CHARGER_OOS">>

\* The changed flags, in declaration order.
ChangedInOrder == SelectSeq(DeclarationOrder, LAMBDA f : f \in ChangedFlags)

\* The event kind the table dispatches for a flag.
KindDispatchedFor(f) ==
    STATUS_EVTS[CHOOSE i \in DOMAIN STATUS_EVTS : STATUS_EVTS[i][1] = f][2]

\* C16: handling a robot-state packet dispatches EvtRobotStateUpdated
\* exactly once, whether or not a bit changed, first of all events and when
\* the snapshot and robot_status hold the packet's values already; the flag
\* events follow, one per changed flag, in the table's declaration order.
C16_StateUpdatedFirstThenFlagsInOrder ==
    handled.type = "RobotState" =>
        /\ Len(dispatched) >= 1
        /\ dispatched[1].evt = "EvtRobotStateUpdated"
        /\ dispatched[1].args[1] =
               [robot_status |-> handled.pkt.status,
                snapshot |-> SnapshotOf(handled.pkt)]
        /\ Len(dispatched) = 1 + Len(FlagEvents)
        /\ Len(FlagEvents) = Len(ChangedInOrder)
        /\ \A i \in DOMAIN FlagEvents :
               /\ dispatched[i + 1] = FlagEvents[i]
               /\ FlagEvents[i].evt = KindDispatchedFor(ChangedInOrder[i])
               /\ FlagEvents[i].args[1] =
                      (BitAnd(robot_status, RobotStatusFlag[ChangedInOrder[i]]) # 0)

\* C16 witness: a packet that changed both the first and the last flag of
\* the table, one set and one cleared.
C16_Witness ==
    /\ handled.type = "RobotState"
    /\ ChangedInOrder = <<"IS_MOVING", "IS_CHARGER_OOS">>
    /\ Len(dispatched) = 3
    /\ FlagEvents[1].args[1] # FlagEvents[2].args[1]

\* ------------------------------------------------------------------------
\* Properties of the handshake controller
\* ------------------------------------------------------------------------
\* The stored signature names a version other than the supported one.
UnsupportedVersionStored ==
    HasVersion(robot_fw_sig) /\ robot_fw_sig.version # FIRMWARE_VERSION

EventKinds(events) == {events[i].evt : i \in DOMAIN events}
Commands(cmds) == {cmds[i] : i \in DOMAIN cmds}

\* C6: with a stored version other than the supported one, handling
\* body-info sends no initialization command, dispatches no EvtRobotReady,
\* never enters _initialize_robot and ends without an exception.
C6_UnsupportedVersionWithholdsInit ==
    (handled.type = "BodyInfo" /\ UnsupportedVersionStored) =>
        /\ sent = <<>>
        /\ "EvtRobotReady" \notin EventKinds(dispatched)
        /\ dpc \in {"line 236", "line 242", "idle"}
        /\ raised = NoExc

\* C6 witness: body-info has been handled to its end against a stored
\* unsupported version.
C6_Witness ==
    /\ handled.type = "BodyInfo"
    /\ UnsupportedVersionStored
    /\ dpc = "idle"
    /\ EventKinds(dispatched) = {"EvtRobotFound"}

\* The handled packet is a firmware signature that names a version other
\* than the supported one.
HandledUnsupportedSignature ==
    /\ handled.type = "FirmwareSignature"
    /\ HasVersion(JsonLoads(handled.pkt.signature))
    /\ JsonLoads(handled.pkt.signature).version # FIRMWARE_VERSION

\* C7 as stated: a firmware signature naming a version other than the
\* supported one makes the handler send no Enable command.
C7_NoEnableOnUnsupported ==
    HandledUnsupportedSignature => "Enable" \notin Commands(sent)

\* C7 as amended: a firmware signature naming a version other than the
\* supported one is stored, and the handler sends exactly two Enable
\* commands and nothing else, as it does for the supported version: Enable
\* is not gated on the version.
C7_EnableTwiceOnAnyVersion ==
    (handled.type = "FirmwareSignature" /\ HasVersion(JsonLoads(handled.pkt.signature))) =>
        /\ sent = <<"Enable", "Enable">>
        /\ robot_fw_sig = JsonLoads(handled.pkt.signature)
        /\ dispatched = <<>>
        /\ raised = NoExc

\* C7 witness: a signature of an unsupported version has been handled.
C7_Witness ==
    /\ HandledUnsupportedSignature
    /\ UnsupportedVersionStored
    /\ Len(sent) = 2

\* C8: a body-info packet handled after a firmware signature was stored
\* dispatches EvtRobotFound exactly once.
C8_FoundOncePerBodyInfo ==
    (handled.type = "BodyInfo" /\ dpc = "idle" /\ robot_fw_sig # NoSignature) =>
        Len(SelectSeq(dispatched, LAMBDA e : e.evt = "EvtRobotFound")) = 1

\* C9: wait_for_robot returns normally only when EvtRobotReady has been
\* dispatched.
C9_ReturnsOnlyWhenReady ==
    outcome = "returned" => ready_dispatched

\* C10: while an unsupported version is stored, wait_for_robot's first wait
\* does not end in ConnectionTimeout and the call never goes on to wait for
\* EvtRobotReady; ConnectionTimeout is raised by the first wait only if the
\* robot was never found, by the second only if it never became ready.
C10_UnsupportedNeverTimesOut ==
    [][/\ (wpc = "line 248" /\ UnsupportedVersionStored)
           => outcome' # "ConnectionTimeout"
       /\ (wpc = "line 251" /\ UnsupportedVersionStored)
           => wpc' \notin {"line 254", "line 255", "line 257"}
       /\ (wpc = "line 248" /\ outcome' = "ConnectionTimeout") => ~found_dispatched
       /\ (wpc = "line 257" /\ outcome' = "ConnectionTimeout") => ~ready_dispatched
      ]_vars

\* The subscriptions that wait_for_robot call number c registered and that
\* the dispatcher still holds.
SubscriptionsOfCall(c) ==
    {<<evt, i>> \in {"EvtRobotFound", "EvtRobotReady"} \X (1..(2 * MaxCalls)) :
        i \in DOMAIN dispatch_handlers[evt] /\ dispatch_handlers[evt][i].e[1] = c}

\* C11: once wait_for_robot has failed with ConnectionTimeout, the one-shot
\* subscription it registered is no longer held by the dispatcher, so no
\* later dispatch invokes the handler of a waiter that timed out.
C11_TimedOutWaiterUnsubscribed ==
    outcome = "ConnectionTimeout" => SubscriptionsOfCall(calls) = {}

\* The stored signature names the supported version.
SupportedVersionStored ==
    HasVersion(robot_fw_sig) /\ robot_fw_sig.version = FIRMWARE_VERSION

\* The initialization trace: the two enabling commands, then seven pairs of
\* NextFrame, DisplayImage.
InitializationTrace ==
    <<"EnableBodyACC", "EnableAnimationState",
      "NextFrame", "DisplayImage", "NextFrame", "DisplayImage",
      "NextFrame", "DisplayImage", "NextFrame", "DisplayImage",
      "NextFrame", "DisplayImage", "NextFrame", "DisplayImage",
      "NextFrame", "DisplayImage">>

\* C14: in a handshake of the supported version the sends form a fixed
\* trace: a firmware signature sends Enable twice and nothing else; body-info
\* sends EnableBodyACC, EnableAnimationState and then seven pairs NextFrame,
\* DisplayImage, nothing else and nothing in between; EvtRobotReady is
\* dispatched only when the last of them has been sent.
C14_FixedCommandTrace ==
    /\ (/\ handled.type = "FirmwareSignature"
        /\ HasVersion(JsonLoads(handled.pkt.signature))
        /\ JsonLoads(handled.pkt.signature).version = FIRMWARE_VERSION)
       => sent = <<"Enable", "Enable">> /\ dispatched = <<>>
    /\ (handled.type = "BodyInfo" /\ SupportedVersionStored) =>
           /\ dpc \in {"line 236", "line 238"} =>
                  sent = <<>> /\ "EvtRobotReady" \notin EventKinds(dispatched)
           /\ dpc = "line 216" =>
                  sent = InitializationTrace
                  /\ "EvtRobotReady" \notin EventKinds(dispatched)
           /\ dpc \in {"line 242", "idle"} =>
                  sent = InitializationTrace
                  /\ "EvtRobotReady" \in EventKinds(dispatched)

\* C14 witness: body-info of a supported handshake has been handled to its
\* end, all sixteen commands sent and EvtRobotReady dispatched.
C14_Witness ==
    /\ handled.type = "BodyInfo"
    /\ SupportedVersionStored
    /\ dpc = "idle"
    /\ Len(sent) = 16
    /\ ready_dispatched

\* C15: in a handshake of the supported version, handling body-info
\* dispatches EvtRobotFound before any initialization command is sent and
\* before EvtRobotReady is dispatched.
C15_FoundBeforeInitializing ==
    (handled.type = "BodyInfo" /\ SupportedVersionStored) =>
        /\ sent # <<>> => "EvtRobotFound" \in EventKinds(dispatched)
        /\ "EvtRobotReady" \in EventKinds(dispatched) =>
               dispatched[1].evt = "EvtRobotFound"

\* C18: no wakeup is lost: a wait of wait_for_robot does not end in
\* ConnectionTimeout when the event it waits for (EvtRobotFound in the first
\* phase, EvtRobotReady in the second) was dispatched at some point after
\* the call began, be it before the handler was registered.
C18_NoLostWakeup ==
    [][/\ (wpc = "line 248" /\ outcome' = "ConnectionTimeout")
           => "EvtRobotFound" \notin since_call
       /\ (wpc = "line 257" /\ outcome' = "ConnectionTimeout")
           => "EvtRobotReady" \notin since_call
      ]_vars

\* C19: a body-info packet handled while no firmware signature is stored
\* completes without an exception, sends no initialization command and
\* dispatches no EvtRobotReady.
C19_BodyInfoBeforeSignature ==
    (handled.type = "BodyInfo" /\ robot_fw_sig = NoSignature) =>
        /\ raised = NoExc
        /\ sent = <<>>
        /\ "EvtRobotReady" \notin EventKinds(dispatched)

C13_FirstDiscoveryWins ==
    [][/\ DOMAIN available_objects' = DOMAIN first_available'
       /\ \A id \in DOMAIN available_objects' :
              available_objects'[id] =
                  [factory_id |-> id,
                   object_type |-> first_available'[id].object_type]
       /\ (handled'.type = "ObjectAvailable"
           /\ handled'.pkt.factory_id \in DOMAIN available_objects)
          => available_objects' = available_objects
      ]_vars

\* C13 witness: an object-available packet has been handled whose factory id
\* was known already, with another object type than the stored record's.
C13_Witness ==
    /\ handled.type = "ObjectAvailable"
    /\ handled.pkt.factory_id \in DOMAIN first_available
    /\ first_available[handled.pkt.factory_id].object_type # handled.pkt.object_type
    /\ available_objects[handled.pkt.factory_id].object_type # handled.pkt.object_type

=============================================================================
